---- MODULE Spec2Model ----
(***************************************************************************)
(* Model of pages/api/league-data.js: the proxy handler, the standings     *)
(* aggregation (fetchStandings) and the champion-history walk              *)
(* (fetchLeagueHistory) over the upstream league-data provider.            *)
(***************************************************************************)
EXTENDS Integers, Sequences, FiniteSets, TLC

VARIABLES
    upstream,       \* the league records the provider has served to the
                    \* running request, by league id
    pc,             \* position of the running request / call
    req,            \* req.query of the request being served
    cur,            \* currentLeagueId of the innermost fetchLeagueHistory call
    league,         \* league record of the current hop (or NoLeague)
    rosters,        \* rosters payload held by the running function
    users,          \* users payload held by the running function
    history,        \* the accumulator of fetchLeagueHistory
    championOwner,  \* championOwner of the hop last computed
    data,           \* the handler's data variable / fetchStandings' result
    fetchLog,       \* upstream fetches issued for this request, in order
    resLog,         \* HTTP responses written for this request, in order
    exit            \* the return statement fetchLeagueHistory left by

vars == << upstream, pc, req, cur, league, rosters, users, history, championOwner,
           data, fetchLog, resLog, exit >>

(***************************************************************************)
(* Bounds of the model.                                                    *)
(***************************************************************************)
MaxRosters == 3     \* longest rosters list given to the aggregation
MaxHops == 3        \* hops of the chain walk that are followed
MaxFptsDecimal == 99    \* largest fpts_decimal a roster carries

(***************************************************************************)
(* Values.                                                                 *)
(***************************************************************************)
NULL == "null"      \* JavaScript null / undefined for string-valued fields

Truthy(s) == s # NULL /\ s # ""

\* An optional number is <<>> (absent) or <<n>>; x ?? 0
Coalesce(x) == IF x = << >> THEN 0 ELSE x[1]

LeagueIds == {"L1", "L2", "L3"}
PrevValues == LeagueIds \cup {NULL, "", "0"}
Seasons == {"2022", "2023"}

\* b.season - a.season coerces the season strings to numbers
ToNumber(s) == CASE s = "2022" -> 2022
                 [] s = "2023" -> 2023
                 [] OTHER -> 0

UserIdAt == << "u1", "u2", "u3", "u4", "u5" >>
DisplayNameAt == << "Ann", "Bob", "Cyd", "Dee", "Eli" >>
UsernameAt == << "ann01", "bob02", "cyd03", "dee04", "eli05" >>

WinsValues == { << >>, << 1 >> }
FptsValues == { << >>, << 12 >> }
FptsDecimalValues == { << >>, << 5 >>, << 50 >>, << 56 >> }

Settings == [wins : WinsValues, fpts : FptsValues, fpts_decimal : FptsDecimalValues]

\* The rosters of one league: one owner per roster, settings free.
RostersFrom(ss) ==
    [i \in 1..Len(ss) |-> [roster_id |-> i, owner_id |-> UserIdAt[i], settings |-> ss[i]]]

\* rs is a rosters list of at most n rosters.
IsRosterList(rs, n) ==
    \E k \in 0..n : \E ss \in [1..k -> Settings] : rs = RostersFrom(ss)

\* The rosters payloads the provider serves inside a request: a season
\* without rosters, and one whose second roster leads.
WeakSettings == [wins |-> << >>, fpts |-> << >>, fpts_decimal |-> << >>]
StrongSettings == [wins |-> << 1 >>, fpts |-> << 12 >>, fpts_decimal |-> << 5 >>]

SeasonRosters == { << >>, RostersFrom(<< WeakSettings, StrongSettings >>) }

\* The users list of a league: the first user has a display name, only a
\* username, neither of the two, or is missing from the list; the others
\* have display names.
UserProfiles == {"display", "username", "nameless", "absent"}

UserRecord(i, profile) ==
    [user_id |-> UserIdAt[i],
     display_name |-> IF profile = "display" THEN DisplayNameAt[i] ELSE NULL,
     username |-> IF profile = "nameless" THEN NULL ELSE UsernameAt[i]]

UsersFrom(profile) ==
    LET all == [i \in 1..Len(UserIdAt) |->
                    UserRecord(i, IF i = 1 THEN profile ELSE "display")]
    IN  IF profile = "absent" THEN Tail(all) ELSE all

UserLists == { UsersFrom(p) : p \in UserProfiles }

\* A league record; name and total_rosters are copied through unchanged by
\* the code and are left out.
LeagueRecords == [season : Seasons, previous_league_id : PrevValues]

\* The record of a league the running request has not been served yet.
Unseen == [season |-> NULL, previous_league_id |-> NULL]

NothingServed == [id \in LeagueIds |-> Unseen]

\* The records the provider may serve for a league: the provider answers
\* the same league with the same record throughout a request.
Serves(served, id) == IF served[id] # Unseen THEN {served[id]} ELSE LeagueRecords

LeagueOf(id, rec) ==
    [league_id |-> id, season |-> rec.season,
     previous_league_id |-> rec.previous_league_id]

NoLeague == [league_id |-> NULL, season |-> NULL, previous_league_id |-> NULL]
NoData == [kind |-> "none"]
NoQuery == [leagueId |-> NULL, dataType |-> NULL, week |-> NULL, season |-> NULL]

\* req.query of the requests made to the handler.
StartIds == {NULL, "", "0", "L1"}
DataTypes == {"league", "users", "rosters", "matchups", "drafts", "standings",
              "champions"}
\* week and season are sent with matchups and standings requests only.
Queries ==
    [leagueId : StartIds, dataType : DataTypes \cup {NULL, "teams"},
     week : {NULL}, season : {NULL}]
    \cup [leagueId : StartIds, dataType : {"matchups", "standings"},
          week : {NULL, "1"}, season : {NULL, "2022"}]

\* How a fetch ends: an HTTP status of the response, or the promise rejects.
Outcomes == {"200", "404", "500", "rejected"}

\* The provider has no league under an id outside LeagueIds.
OutcomesFor(id) == IF id \in LeagueIds THEN Outcomes ELSE Outcomes \ {"200"}

(***************************************************************************)
(* Pure helpers of the aggregation.                                        *)
(***************************************************************************)
RECURSIVE Digits(_)
Digits(n) == IF n < 10 THEN 1 ELSE 1 + Digits(n \div 10)

RECURSIVE Pow10(_)
Pow10(k) == IF k = 0 THEN 1 ELSE 10 * Pow10(k - 1)

\* total_points is kept in units of 10^-FracDigits: every digit of
\* fpts_decimal has its place.
FracDigits == Digits(MaxFptsDecimal)

\* Mutant of the conversion: fpts_decimal read as hundredths.
TotalPointsHundredths(fpts, fpts_decimal) ==
    fpts * Pow10(FracDigits) + fpts_decimal * Pow10(FracDigits - 2)

\* parseFloat(`${fpts}.${fpts_decimal}`): the digits of fpts_decimal are
\* written directly after the point.
TotalPoints(fpts, fpts_decimal) ==
    fpts * Pow10(FracDigits) + fpts_decimal * Pow10(FracDigits - Digits(fpts_decimal))

\* new Map(users.map(u => [u.user_id, u.display_name || u.username])).get(id):
\* a later entry of the list replaces an earlier one with the same id.
RECURSIVE UserMapGet(_, _)
UserMapGet(us, id) ==
    IF us = << >> THEN NULL
    ELSE LET u == us[Len(us)]
         IN  IF u.user_id = id
             THEN (IF Truthy(u.display_name) THEN u.display_name ELSE u.username)
             ELSE UserMapGet(SubSeq(us, 1, Len(us) - 1), id)

\* Mutant of the label: no fallback for an owner the map does not know.
OwnerLabelWithoutFallback(us, id) == UserMapGet(us, id)

\* userMap.get(owner_id) || 'Unknown Owner'
OwnerLabel(us, id) ==
    LET l == UserMapGet(us, id) IN IF Truthy(l) THEN l ELSE "Unknown Owner"

StandingsEntry(r, us) ==
    [roster_id |-> r.roster_id,
     owner |-> OwnerLabel(us, r.owner_id),
     wins |-> Coalesce(r.settings.wins),
     total_points |-> TotalPoints(Coalesce(r.settings.fpts),
                                  Coalesce(r.settings.fpts_decimal))]

\* Mutants of the comparator: the tie-break on points dropped, and the
\* tie-break taken in ascending order.
CompareStandingsWinsOnly(a, b) == b.wins - a.wins

CompareStandingsPointsAscending(a, b) ==
    IF b.wins # a.wins THEN b.wins - a.wins ELSE a.total_points - b.total_points

\* The comparator of standings.sort: negative when a goes first.
CompareStandings(a, b) ==
    IF b.wins # a.wins THEN b.wins - a.wins ELSE b.total_points - a.total_points

\* The comparator of history.sort.
CompareSeasons(a, b) == ToNumber(b.season) - ToNumber(a.season)

\* The compareFn handed to Array.prototype.sort at each of the two call sites.
CompareFn(site, a, b) ==
    IF site = "standings" THEN CompareStandings(a, b) ELSE CompareSeasons(a, b)

\* Mutant of the sort: an element goes ahead of those it ties with.
RECURSIVE InsertSortedAheadOfTies(_, _, _)
InsertSortedAheadOfTies(s, x, site) ==
    IF s = << >> THEN << x >>
    ELSE IF CompareFn(site, s[Len(s)], x) < 0 THEN Append(s, x)
    ELSE Append(InsertSortedAheadOfTies(SubSeq(s, 1, Len(s) - 1), x, site), s[Len(s)])

\* Array.prototype.sort: a stable sort by the comparator (insertion sort).
RECURSIVE InsertSorted(_, _, _)
InsertSorted(s, x, site) ==
    IF s = << >> THEN << x >>
    ELSE IF CompareFn(site, s[Len(s)], x) <= 0 THEN Append(s, x)
    ELSE Append(InsertSorted(SubSeq(s, 1, Len(s) - 1), x, site), s[Len(s)])

RECURSIVE SortBy(_, _)
SortBy(s, site) ==
    IF s = << >> THEN << >>
    ELSE InsertSorted(SortBy(SubSeq(s, 1, Len(s) - 1), site), s[Len(s)], site)

SortStandings(s) == SortBy(s, "standings")

SortHistory(h) == SortBy(h, "history")

\* fetchStandings after the three payloads are parsed.
ComputeStandings(rs, us) ==
    IF rs = << >> THEN << >>
    ELSE SortStandings([i \in 1..Len(rs) |-> StandingsEntry(rs[i], us)])

\* Mutant of the forEach test: a later roster that ties replaces the champion.
BeatsOrTies(wins, totalPoints, maxWins, maxPoints) ==
    wins > maxWins \/ (wins = maxWins /\ totalPoints >= maxPoints)

\* The test of the forEach in fetchLeagueHistory.
Beats(wins, totalPoints, maxWins, maxPoints) ==
    wins > maxWins \/ (wins = maxWins /\ totalPoints > maxPoints)

\* rosters.forEach(...): the state <<maxWins, maxPoints, championRoster>>
\* after the first n rosters; championRoster is an index, 0 for null.
RECURSIVE ChampionScan(_, _)
ChampionScan(rs, n) ==
    IF n = 0 THEN << -1, -1, 0 >>
    ELSE LET before == ChampionScan(rs, n - 1)
             wins == Coalesce(rs[n].settings.wins)
             totalPoints == TotalPoints(Coalesce(rs[n].settings.fpts),
                                        Coalesce(rs[n].settings.fpts_decimal))
         IN  IF Beats(wins, totalPoints, before[1], before[2])
             THEN << wins, totalPoints, n >>
             ELSE before

\* Mutant of the champion label: a season without rosters is labelled like
\* a roster without a known owner.
ComputeChampionUnknownOwner(rs, us) ==
    IF Len(rs) > 0
    THEN OwnerLabel(us, rs[ChampionScan(rs, Len(rs))[3]].owner_id)
    ELSE "Unknown Owner"

\* championOwner of one hop of fetchLeagueHistory.
ComputeChampion(rs, us) ==
    IF Len(rs) > 0
    THEN LET championRoster == ChampionScan(rs, Len(rs))[3]
         IN  IF championRoster # 0
             THEN OwnerLabel(us, rs[championRoster].owner_id)
             ELSE "Unknown"
    ELSE "Unknown"

(***************************************************************************)
(* The proxy handler and the two aggregations as they run inside it.       *)
(***************************************************************************)
Init ==
    /\ upstream = NothingServed
    /\ pc = "idle"
    /\ req = NoQuery
    /\ cur = NULL
    /\ league = NoLeague
    /\ rosters = << >>
    /\ users = << >>
    /\ history = << >>
    /\ championOwner = NULL
    /\ data = NoData
    /\ fetchLog = << >>
    /\ resLog = << >>
    /\ exit = "none"

Fetch(id, kind) == [id |-> id, kind |-> kind, outcome |-> "pending"]

\* The log with the outcome of its n-th fetch filled in.
Settle(log, n, o) == [log EXCEPT ![n].outcome = o]

\* Number of hops of the chain walk begun so far.
Hops(log) == Cardinality({ i \in 1..Len(log) : log[i].kind = "league" })

\* res.status(code).json(body)
Respond(code, body) ==
    /\ resLog' = Append(resLog, [status |-> code, body |-> body])
    /\ pc' = "responded"

\* Mutant of the catch block: the failure is answered as a bad request.
RespondErrorAsBadRequest(message) ==
    Respond(400, [error |-> << "Failed to fetch data: " >> \o message])

\* The catch block of the handler.
RespondError(message) ==
    Respond(500, [error |-> << "Failed to fetch data: " >> \o message])

ApiError(where, o) == << "Sleeper API error", where, "Status", o >>

FetchFailed == << "fetch failed" >>

\* Mutant of the ok test: a server error passes for a success.
OkOrServerError(o) == o \in {"200", "500"}

\* res.ok of a response that arrived with status o.
Ok(o) == o = "200"

\* Mutant of the guard: the literal '0' is not treated as the end of the chain.
IsBaseCaseWithoutZero(id) == ~Truthy(id)

\* The guard that opens fetchLeagueHistory.
IsBaseCase(id) == ~Truthy(id) \/ id = "0"

\* Mutant of the entry: a second hop is never begun, the call returns as it
\* does for the end of the chain.
CallHistoryWithHopLimit(id, log) ==
    /\ cur' = id
    /\ league' = NoLeague
    /\ rosters' = << >>
    /\ users' = << >>
    /\ IF IsBaseCase(id) \/ Hops(log) >= 1
       THEN /\ pc' = "hist_returned"
            /\ exit' = "sentinel"
            /\ fetchLog' = log
       ELSE /\ pc' = "hist_league"
            /\ exit' = "none"
            /\ fetchLog' = Append(log, Fetch(id, "league"))

\* fetchLeagueHistory(id, baseUrl, history') from its entry to its first
\* await or return; log is the fetch log at the call.
CallHistory(id, log) ==
    /\ cur' = id
    /\ league' = NoLeague
    /\ rosters' = << >>
    /\ users' = << >>
    /\ IF IsBaseCase(id)
       THEN /\ pc' = "hist_returned"    \* return history
            /\ exit' = "sentinel"
            /\ fetchLog' = log
       ELSE IF Hops(log) < MaxHops
       THEN /\ pc' = "hist_league"
            /\ exit' = "none"
            /\ fetchLog' = Append(log, Fetch(id, "league"))
       ELSE /\ pc' = "hist_beyond"     \* the walk goes on past the bound
            /\ exit' = "none"
            /\ fetchLog' = log

\* fetchLeagueHistory returns h by the return statement named by how.
ReturnHistory(h, how) ==
    /\ history' = h
    /\ exit' = how
    /\ pc' = "hist_returned"
    /\ league' = NoLeague
    /\ rosters' = << >>
    /\ users' = << >>

\* Mutant of the recursive call: the accumulator is not handed on, so the
\* callee starts from the default [].
PassedHistoryDefault(h) == << >>

\* The accumulator handed to the recursive call (its third argument).
PassedHistory(h) == h

\* Mutant of the catch block: the hop that failed is entered with champion
\* 'Unknown'.
CatchHistoryWithFailedHop ==
    ReturnHistory(SortHistory(Append(history, [season |-> league.season,
                                               league_id |-> cur,
                                               champion |-> "Unknown"])), "error")

\* Mutant of the catch block: what was collected is dropped.
CatchHistoryEmpty == ReturnHistory(<< >>, "error")

\* Mutant of the 404 branch: what was collected is dropped.
NotFoundReturnEmpty == ReturnHistory(<< >>, "notfound")

\* if (leagueRes.status === 404) return history
NotFoundReturn == ReturnHistory(history, "notfound")

\* The catch block of fetchLeagueHistory.
CatchHistory == ReturnHistory(SortHistory(history), "error")

\* Mutant of the early return: the 400 is written without returning, and
\* the handler goes on to the 200 after the switch.
RefuseWithoutReturn(text) ==
    /\ resLog' = << [status |-> 400, body |-> [error |-> << text >>]],
                    [status |-> 200, body |-> data] >>
    /\ pc' = "responded"
    /\ fetchLog' = << >>
    /\ UNCHANGED << cur, league, rosters, users, exit >>

\* return res.status(400).json({ error: text }) before anything is fetched.
Refuse(text) ==
    /\ resLog' = << [status |-> 400, body |-> [error |-> << text >>]] >>
    /\ pc' = "responded"
    /\ fetchLog' = << >>
    /\ UNCHANGED << cur, league, rosters, users, exit >>

\* One case of the switch that fetches a single endpoint and awaits it.
DirectCase(q, kind) ==
    /\ fetchLog' = << Fetch(q.leagueId, kind) >>
    /\ pc' = "direct_fetch"
    /\ resLog' = << >>
    /\ UNCHANGED << cur, league, rosters, users, exit >>

\* case 'matchups'
MatchupsCase(q) ==
    IF ~Truthy(q.week) \/ ~Truthy(q.season)
    THEN Refuse("Week and season are required for matchups.")
    ELSE DirectCase(q, "matchups")

\* Mutant of case 'standings': the fetches are issued before season is checked.
StandingsCaseFetchFirst(q) ==
    /\ fetchLog' = << Fetch(q.leagueId, "league"),
                      Fetch(q.leagueId, "rosters"),
                      Fetch(q.leagueId, "users") >>
    /\ IF ~Truthy(q.season)
       THEN /\ resLog' = << [status |-> 400, body |->
                    [error |-> << "Season is required for standings." >>]] >>
            /\ pc' = "responded"
       ELSE /\ resLog' = << >>
            /\ pc' = "standings_fetch"
    /\ UNCHANGED << cur, league, rosters, users, exit >>

\* case 'standings': the check of season, then fetchStandings up to its
\* Promise.all.
StandingsCase(q) ==
    IF ~Truthy(q.season)
    THEN Refuse("Season is required for standings.")
    ELSE /\ fetchLog' = << Fetch(q.leagueId, "league"),
                           Fetch(q.leagueId, "rosters"),
                           Fetch(q.leagueId, "users") >>
         /\ pc' = "standings_fetch"
         /\ resLog' = << >>
         /\ UNCHANGED << cur, league, rosters, users, exit >>

\* case 'champions': fetchLeagueHistory(leagueId, baseUrl) with the default
\* accumulator.
ChampionsCase(q) ==
    /\ resLog' = << >>
    /\ CallHistory(q.leagueId, << >>)

\* handler(req, res) up to its first await or its response.
Request(q) ==
    /\ pc = "idle"
    /\ req' = q
    /\ UNCHANGED << upstream, history, championOwner, data >>
    /\ IF ~Truthy(q.leagueId) THEN Refuse("League ID is required.")
       ELSE IF q.dataType \in {"league", "users", "rosters", "drafts"}
            THEN DirectCase(q, q.dataType)
       ELSE IF q.dataType = "matchups" THEN MatchupsCase(q)
       ELSE IF q.dataType = "standings" THEN StandingsCase(q)
       ELSE IF q.dataType = "champions" THEN ChampionsCase(q)
       ELSE Refuse("Invalid data type requested.")

\* The JSON payload of an upstream endpoint that answered 200.
Payloads(id, kind) ==
    CASE kind = "league" -> { LeagueOf(id, rec) : rec \in Serves(upstream, id) }
      [] kind = "users" -> UserLists
      [] kind = "rosters" -> SeasonRosters
      [] OTHER -> { << >> }

\* The cases of the handler that pass one upstream response through.
DirectResponse(o) ==
    /\ pc = "direct_fetch"
    /\ o \in OutcomesFor(req.leagueId)
    /\ fetchLog' = Settle(fetchLog, 1, o)
    /\ IF o = "rejected"
       THEN /\ RespondError(FetchFailed)
            /\ data' = data
       ELSE IF o # "200"
       THEN /\ RespondError(ApiError("", o))
            /\ data' = data
       ELSE /\ \E payload \in Payloads(req.leagueId, fetchLog[1].kind) :
                    data' = [kind |-> req.dataType, value |-> payload]
            /\ Respond(200, data')
    /\ UNCHANGED << upstream, req, cur, league, rosters, users, history,
                    championOwner, exit >>

\* Mutant of the checks after the Promise.all: only the league response is
\* looked at.
StandingsThrownLeagueOnly(ol, or, ou) ==
    IF ol = "rejected" THEN FetchFailed
    ELSE IF ol # "200" THEN ApiError("(league) for standings", ol)
    ELSE << >>

\* What fetchStandings throws for the outcomes of its three fetches (<< >>
\* for nothing): Promise.all rejects when one of them rejects, then the
\* three ok checks in order.
StandingsThrown(ol, or, ou) ==
    IF "rejected" \in {ol, or, ou} THEN FetchFailed
    ELSE IF ol # "200" THEN ApiError("(league) for standings", ol)
    ELSE IF or # "200" THEN ApiError("(rosters) for standings", or)
    ELSE IF ou # "200" THEN ApiError("(users) for standings", ou)
    ELSE << >>

\* Mutant of the return: a season without rosters is an error.
StandingsReturnThrowsOnEmpty(season, rs, us) ==
    IF rs = << >>
    THEN /\ RespondError(<< "No rosters found" >>)
         /\ data' = data
    ELSE /\ data' = [kind |-> "standings", season |-> season,
                     standings |-> ComputeStandings(rs, us)]
         /\ Respond(200, data')

\* return { season, standings, league_name } of fetchStandings, and the
\* handler's res.status(200).json(data).
StandingsReturn(season, rs, us) ==
    /\ data' = [kind |-> "standings", season |-> season,
                standings |-> ComputeStandings(rs, us)]
    /\ Respond(200, data')

\* fetchStandings from the Promise.all to its return, and the handler's
\* response to it.
StandingsResponse(ol, or, ou, rs, us) ==
    /\ pc = "standings_fetch"
    /\ {ol, or, ou} \subseteq OutcomesFor(req.leagueId)
    /\ fetchLog' = Settle(Settle(Settle(fetchLog, 1, ol), 2, or), 3, ou)
    /\ IF StandingsThrown(ol, or, ou) # << >>
       THEN /\ RespondError(StandingsThrown(ol, or, ou))
            /\ UNCHANGED << upstream, league, rosters, users, data >>
       ELSE /\ \E rec \in Serves(upstream, req.leagueId) :
                    /\ upstream' = [upstream EXCEPT ![req.leagueId] = rec]
                    /\ league' = LeagueOf(req.leagueId, rec)
            /\ rosters' = rs
            /\ users' = us
            /\ StandingsReturn(req.season, rs, us)
    /\ UNCHANGED << req, cur, history, championOwner, exit >>

\* fetchLeagueHistory resumed by the response of its league fetch.
HistLeagueResponse(o) ==
    /\ pc = "hist_league"
    /\ o \in OutcomesFor(cur)
    /\ fetchLog' = IF Ok(o)
                   THEN Append(Settle(fetchLog, Len(fetchLog), o), Fetch(cur, "rosters"))
                   ELSE Settle(fetchLog, Len(fetchLog), o)
    /\ IF o = "rejected"
       THEN /\ CatchHistory
            /\ UNCHANGED upstream
       ELSE IF ~Ok(o)
       THEN IF o = "404"
            THEN /\ NotFoundReturn
                 /\ UNCHANGED upstream
            ELSE /\ CatchHistory
                 /\ UNCHANGED upstream
       ELSE /\ \E rec \in Serves(upstream, cur) :
                    /\ upstream' = [upstream EXCEPT ![cur] = rec]
                    /\ league' = LeagueOf(cur, rec)
            /\ pc' = "hist_rosters"
            /\ UNCHANGED << rosters, users, history, exit >>
    /\ UNCHANGED << req, cur, championOwner, data, resLog >>

\* fetchLeagueHistory resumed by the response of its rosters fetch.
HistRostersResponse(o, rs) ==
    /\ pc = "hist_rosters"
    /\ o \in OutcomesFor(cur)
    /\ fetchLog' = IF Ok(o)
                   THEN Append(Settle(fetchLog, Len(fetchLog), o), Fetch(cur, "users"))
                   ELSE Settle(fetchLog, Len(fetchLog), o)
    /\ IF ~Ok(o)
       THEN CatchHistory
       ELSE /\ rosters' = rs
            /\ pc' = "hist_users"
            /\ UNCHANGED << league, users, history, exit >>
    /\ UNCHANGED << upstream, req, cur, championOwner, data, resLog >>

\* fetchLeagueHistory resumed by the response of its users fetch: the
\* champion of the hop, the push, and the recursive call or the return.
HistUsersResponse(o, us) ==
    /\ pc = "hist_users"
    /\ o \in OutcomesFor(cur)
    /\ IF ~Ok(o)
       THEN /\ CatchHistory
            /\ fetchLog' = Settle(fetchLog, Len(fetchLog), o)
            /\ UNCHANGED << cur, championOwner >>
       ELSE /\ championOwner' = ComputeChampion(rosters, us)
            /\ LET pushed == Append(history, [season |-> league.season,
                                              league_id |-> league.league_id,
                                              champion |-> championOwner'])
                   log == Settle(fetchLog, Len(fetchLog), o)
               IN  IF Truthy(league.previous_league_id)
                   THEN /\ history' = PassedHistory(pushed)
                        /\ CallHistory(league.previous_league_id, log)
                   ELSE /\ ReturnHistory(SortHistory(pushed), "noprev")
                        /\ fetchLog' = log
                        /\ cur' = cur
    /\ UNCHANGED << upstream, req, data, resLog >>

\* The handler resumed by the list fetchLeagueHistory returned.
HistoryReturned ==
    /\ pc = "hist_returned"
    /\ req.dataType = "champions"
    /\ data' = [kind |-> "champions", history |-> history]
    /\ Respond(200, data')
    /\ UNCHANGED << upstream, req, cur, league, rosters, users, history,
                    championOwner, fetchLog, exit >>

\* The handler has answered; nothing of the request is kept.
Finish ==
    /\ pc = "responded"
    /\ pc' = "idle"
    /\ upstream' = NothingServed
    /\ req' = NoQuery
    /\ cur' = NULL
    /\ league' = NoLeague
    /\ rosters' = << >>
    /\ users' = << >>
    /\ history' = << >>
    /\ championOwner' = NULL
    /\ data' = NoData
    /\ fetchLog' = << >>
    /\ resLog' = << >>
    /\ exit' = "none"

Next ==
    \/ \E q \in Queries : Request(q)
    \/ \E o \in Outcomes : DirectResponse(o)
    \/ \E ol, or, ou \in Outcomes, rs \in SeasonRosters, us \in UserLists :
            StandingsResponse(ol, or, ou, rs, us)
    \/ \E o \in Outcomes : HistLeagueResponse(o)
    \/ \E o \in Outcomes, rs \in SeasonRosters : HistRostersResponse(o, rs)
    \/ \E o \in Outcomes, us \in UserLists : HistUsersResponse(o, us)
    \/ HistoryReturned
    \/ Finish

Spec == Init /\ [][Next]_vars

(***************************************************************************)
(* fetchLeagueHistory called on its own with any start identifier.         *)
(***************************************************************************)
CallWalk(id) ==
    /\ pc = "idle"
    /\ CallHistory(id, << >>)
    /\ UNCHANGED << upstream, req, history, championOwner, data, resLog >>

NextWalk ==
    \/ \E id \in PrevValues : CallWalk(id)
    \/ \E o \in Outcomes : HistLeagueResponse(o)
    \/ \E o \in Outcomes, rs \in SeasonRosters : HistRostersResponse(o, rs)
    \/ \E o \in Outcomes, us \in UserLists : HistUsersResponse(o, us)

SpecWalk == Init /\ [][NextWalk]_vars

(***************************************************************************)
(* The aggregation applied to arbitrary payloads.                          *)
(***************************************************************************)
InitAgg ==
    /\ upstream = NothingServed
    /\ pc = "agg_input"
    /\ IsRosterList(rosters, MaxRosters)
    /\ users \in UserLists
    /\ req = NoQuery
    /\ cur = NULL
    /\ league = NoLeague
    /\ history = << >>
    /\ championOwner = NULL
    /\ data = NoData
    /\ fetchLog = << >>
    /\ resLog = << >>
    /\ exit = "none"

ApplyStandings ==
    /\ pc = "agg_input"
    /\ data' = [kind |-> "standings", standings |-> ComputeStandings(rosters, users)]
    /\ pc' = "agg_standings"
    /\ UNCHANGED << upstream, req, cur, league, rosters, users, history,
                    championOwner, fetchLog, resLog, exit >>

ApplyChampion ==
    /\ pc = "agg_standings"
    /\ championOwner' = ComputeChampion(rosters, users)
    /\ pc' = "agg_done"
    /\ UNCHANGED << upstream, req, cur, league, rosters, users, history, data,
                    fetchLog, resLog, exit >>

NextAgg == ApplyStandings \/ ApplyChampion

SpecAgg == InitAgg /\ [][NextAgg]_vars

(***************************************************************************)
(* Two invocations running at once, interleaved at their awaits. Every     *)
(* variable of a call is a function of the invocation; history is the      *)
(* heap of accumulator arrays, by reference, since push and sort change    *)
(* the array in place and the recursive call hands the reference on.       *)
(***************************************************************************)
Invocations == {1, 2}

\* Both invocations are served by the same provider: a league has one
\* rosters payload and one users payload.
RostersOf(id) ==
    IF id = "L2" THEN << >> ELSE RostersFrom(<< WeakSettings, StrongSettings >>)

UsersOf(id) == UsersFrom(IF id = "L3" THEN "username" ELSE "display")

\* The league records served to the two invocations: a league links to L3,
\* ends the chain with '0', or has no link.
PairServes(served, id) ==
    { rec \in Serves(served, id) : rec.previous_league_id \in {"L3", "0", NULL} }

\* Mutant of the default parameter: one array shared by every call that
\* leaves the accumulator out.
SharedDefaultHistory(i) == 1

\* history = [] in the parameter list: the default is evaluated at each
\* call, so invocation i gets an array of its own.
DefaultHistory(i) == i

InitPair ==
    /\ upstream = NothingServed
    /\ pc = [i \in Invocations |-> "idle"]
    /\ cur = [i \in Invocations |-> NULL]
    /\ league = [i \in Invocations |-> NoLeague]
    /\ rosters = [i \in Invocations |-> << >>]
    /\ users = [i \in Invocations |-> << >>]
    /\ history = [r \in Invocations |-> << >>]
    /\ data = [i \in Invocations |-> NoData]
    /\ fetchLog = [i \in Invocations |-> << >>]
    /\ exit = [i \in Invocations |-> "none"]
    /\ req = NoQuery
    /\ championOwner = NULL
    /\ resLog = << >>

\* Invocation i enters fetchLeagueHistory(id, baseUrl, history).
EnterHistory(i, id, log) ==
    /\ cur' = [cur EXCEPT ![i] = id]
    /\ league' = [league EXCEPT ![i] = NoLeague]
    /\ rosters' = [rosters EXCEPT ![i] = << >>]
    /\ users' = [users EXCEPT ![i] = << >>]
    /\ IF IsBaseCase(id)
       THEN /\ pc' = [pc EXCEPT ![i] = "hist_returned"]
            /\ exit' = [exit EXCEPT ![i] = "sentinel"]
            /\ fetchLog' = [fetchLog EXCEPT ![i] = log]
       ELSE IF Hops(log) < MaxHops
       THEN /\ pc' = [pc EXCEPT ![i] = "hist_league"]
            /\ exit' = exit
            /\ fetchLog' = [fetchLog EXCEPT ![i] = Append(log, Fetch(id, "league"))]
       ELSE /\ pc' = [pc EXCEPT ![i] = "hist_beyond"]
            /\ exit' = exit
            /\ fetchLog' = [fetchLog EXCEPT ![i] = log]

\* Invocation i leaves fetchLeagueHistory with its array holding h.
LeaveHistory(i, h, how) ==
    /\ history' = [history EXCEPT ![DefaultHistory(i)] = h]
    /\ exit' = [exit EXCEPT ![i] = how]
    /\ pc' = [pc EXCEPT ![i] = "hist_returned"]
    /\ league' = [league EXCEPT ![i] = NoLeague]
    /\ rosters' = [rosters EXCEPT ![i] = << >>]
    /\ users' = [users EXCEPT ![i] = << >>]

\* The catch block, for invocation i.
CatchHistoryOf(i) ==
    LeaveHistory(i, SortHistory(history[DefaultHistory(i)]), "error")

\* The top-level call fetchLeagueHistory(id, baseUrl) of invocation i.
PairCallWalk(i, id) ==
    /\ pc[i] = "idle"
    /\ EnterHistory(i, id, << >>)
    /\ UNCHANGED << upstream, req, history, championOwner, data, resLog >>

PairLeagueResponse(i, o) ==
    /\ pc[i] = "hist_league"
    /\ o \in OutcomesFor(cur[i])
    /\ LET log == Settle(fetchLog[i], Len(fetchLog[i]), o)
       IN  fetchLog' = [fetchLog EXCEPT ![i] =
                IF o = "200" THEN Append(log, Fetch(cur[i], "rosters")) ELSE log]
    /\ IF o = "rejected"
       THEN /\ CatchHistoryOf(i)
            /\ UNCHANGED upstream
       ELSE IF o # "200"
       THEN IF o = "404"
            THEN /\ LeaveHistory(i, history[DefaultHistory(i)], "notfound")
                 /\ UNCHANGED upstream
            ELSE /\ CatchHistoryOf(i)
                 /\ UNCHANGED upstream
       ELSE /\ \E rec \in PairServes(upstream, cur[i]) :
                    /\ upstream' = [upstream EXCEPT ![cur[i]] = rec]
                    /\ league' = [league EXCEPT ![i] = LeagueOf(cur[i], rec)]
            /\ pc' = [pc EXCEPT ![i] = "hist_rosters"]
            /\ UNCHANGED << rosters, users, history, exit >>
    /\ UNCHANGED << req, cur, championOwner, data, resLog >>

PairRostersResponse(i, o) ==
    /\ pc[i] = "hist_rosters"
    /\ o \in OutcomesFor(cur[i])
    /\ LET log == Settle(fetchLog[i], Len(fetchLog[i]), o)
       IN  fetchLog' = [fetchLog EXCEPT ![i] =
                IF o = "200" THEN Append(log, Fetch(cur[i], "users")) ELSE log]
    /\ IF o # "200"
       THEN CatchHistoryOf(i)
       ELSE /\ rosters' = [rosters EXCEPT ![i] = RostersOf(cur[i])]
            /\ pc' = [pc EXCEPT ![i] = "hist_users"]
            /\ UNCHANGED << league, users, history, exit >>
    /\ UNCHANGED << upstream, req, cur, championOwner, data, resLog >>

PairUsersResponse(i, o) ==
    /\ pc[i] = "hist_users"
    /\ o \in OutcomesFor(cur[i])
    /\ IF o # "200"
       THEN /\ CatchHistoryOf(i)
            /\ fetchLog' = [fetchLog EXCEPT ![i] = Settle(@, Len(@), o)]
            /\ cur' = cur
       ELSE LET pushed == Append(history[DefaultHistory(i)],
                               [season |-> league[i].season,
                                league_id |-> league[i].league_id,
                                champion |-> ComputeChampion(rosters[i],
                                                             UsersOf(cur[i]))])
                log == Settle(fetchLog[i], Len(fetchLog[i]), o)
            IN  IF Truthy(league[i].previous_league_id)
                THEN /\ history' = [history EXCEPT ![DefaultHistory(i)] = pushed]
                     /\ EnterHistory(i, league[i].previous_league_id, log)
                ELSE /\ LeaveHistory(i, SortHistory(pushed), "noprev")
                     /\ fetchLog' = [fetchLog EXCEPT ![i] = log]
                     /\ cur' = cur
    /\ UNCHANGED << upstream, req, championOwner, data, resLog >>

\* Invocation i calls fetchStandings(id, season, baseUrl): up to the
\* Promise.all.
PairCallStandings(i, id) ==
    /\ pc[i] = "idle"
    /\ cur' = [cur EXCEPT ![i] = id]
    /\ pc' = [pc EXCEPT ![i] = "standings_fetch"]
    /\ fetchLog' = [fetchLog EXCEPT ![i] =
            << Fetch(id, "league"), Fetch(id, "rosters"), Fetch(id, "users") >>]
    /\ UNCHANGED << upstream, req, league, rosters, users, history,
                    championOwner, data, resLog, exit >>

\* fetchStandings of invocation i from the Promise.all to its return or throw.
PairStandingsResponse(i, ol, or, ou) ==
    /\ pc[i] = "standings_fetch"
    /\ {ol, or, ou} \subseteq OutcomesFor(cur[i])
    /\ fetchLog' = [fetchLog EXCEPT ![i] = Settle(Settle(Settle(@, 1, ol), 2, or), 3, ou)]
    /\ IF StandingsThrown(ol, or, ou) # << >>
       THEN /\ pc' = [pc EXCEPT ![i] = "standings_thrown"]
            /\ UNCHANGED << upstream, league, rosters, users, data >>
       ELSE /\ \E rec \in PairServes(upstream, cur[i]) :
                    /\ upstream' = [upstream EXCEPT ![cur[i]] = rec]
                    /\ league' = [league EXCEPT ![i] = LeagueOf(cur[i], rec)]
            /\ rosters' = [rosters EXCEPT ![i] = RostersOf(cur[i])]
            /\ users' = [users EXCEPT ![i] = UsersOf(cur[i])]
            /\ data' = [data EXCEPT ![i] =
                    [kind |-> "standings",
                     standings |-> ComputeStandings(RostersOf(cur[i]), UsersOf(cur[i]))]]
            /\ pc' = [pc EXCEPT ![i] = "standings_returned"]
    /\ UNCHANGED << req, cur, history, championOwner, resLog, exit >>

PairStartIds == {"L1", "L2"}

NextPair ==
    \E i \in Invocations :
        \/ \E id \in PairStartIds : PairCallWalk(i, id)
        \/ \E o \in Outcomes : PairLeagueResponse(i, o)
        \/ \E o \in Outcomes : PairRostersResponse(i, o)
        \/ \E o \in Outcomes : PairUsersResponse(i, o)
        \/ \E id \in PairStartIds : PairCallStandings(i, id)
        \/ \E ol, or, ou \in Outcomes : PairStandingsResponse(i, ol, or, ou)

SpecPair == InitPair /\ [][NextPair]_vars

(***************************************************************************)
(* The conversion of fpts and fpts_decimal applied to one roster.          *)
(***************************************************************************)
PointsSettings ==
    [wins : {<< 1 >>},
     fpts : {<< >>, << 0 >>, << 12 >>, << 1234 >>},
     fpts_decimal : {<< >>} \cup { << d >> : d \in 0..MaxFptsDecimal }]

InitPoints ==
    /\ upstream = NothingServed
    /\ pc = "points_input"
    /\ \E st \in PointsSettings : rosters = RostersFrom(<< st >>)
    /\ users = << >>
    /\ req = NoQuery
    /\ cur = NULL
    /\ league = NoLeague
    /\ history = << >>
    /\ championOwner = NULL
    /\ data = NoData
    /\ fetchLog = << >>
    /\ resLog = << >>
    /\ exit = "none"

\* total_points of the standings entry and totalPoints of the forEach, for
\* the one roster.
ApplyPoints ==
    /\ pc = "points_input"
    /\ data' = [kind |-> "points",
                total_points |-> StandingsEntry(rosters[1], users).total_points,
                totalPoints |-> ChampionScan(rosters, 1)[2]]
    /\ pc' = "points_done"
    /\ UNCHANGED << upstream, req, cur, league, rosters, users, history,
                    championOwner, fetchLog, resLog, exit >>

NextPoints == ApplyPoints

SpecPoints == InitPoints /\ [][NextPoints]_vars

(***************************************************************************)
(* pages/index.js: the page component. data is the React state of the      *)
(* component, pc the position of each fetchData call and of the two        *)
(* effects, fetchLog the outcome of the fetch of each call.                *)
(***************************************************************************)
\* The three calls of the Promise.all of getAllLeagueData.
ConcurrentCalls == {"league", "users", "rosters"}

\* The dataType of every fetchData call the page makes.
PageCalls == ConcurrentCalls \cup {"champions", "standings"}

Effects == {"getAllLeagueData", "getStandingsForSeason"}

\* How the fetch of /api/league-data ends for the page.
PageOutcomes == {"200", "400", "500", "rejected"}

Returned(c) == pc[c] \in {"returned_data", "returned_null"}

InFlight(c) == pc[c] \in {"fetch", "json"}

isLoading == data.isLoading

InitPage ==
    /\ pc = [c \in PageCalls \cup Effects |-> "idle"]
    /\ data = [isLoading |-> FALSE, error |-> "", message |-> "",
               leagueData |-> FALSE, selectedSeason |-> ""]
    /\ fetchLog = [c \in PageCalls |-> "none"]
    /\ upstream = NothingServed
    /\ req = NoQuery
    /\ cur = NULL
    /\ league = NoLeague
    /\ rosters = << >>
    /\ users = << >>
    /\ history = << >>
    /\ championOwner = NULL
    /\ resLog = << >>
    /\ exit = "none"

\* The first effect at mount: getAllLeagueData up to its await of the
\* Promise.all, each of the three fetchData calls up to its await of fetch.
GetAllLeagueData ==
    /\ pc["getAllLeagueData"] = "idle"
    /\ pc' = [c \in DOMAIN pc |->
                IF c \in ConcurrentCalls THEN "fetch"
                ELSE IF c = "getAllLeagueData" THEN "await_all"
                ELSE pc[c]]
    /\ data' = [data EXCEPT !.isLoading = TRUE, !.error = "", !.message = ""]
    /\ UNCHANGED << upstream, req, cur, league, rosters, users, history,
                    championOwner, fetchLog, resLog, exit >>

\* fetchData(c) resumed by its fetch: on to response.json(), or by a
\* rejected fetch to catch and finally.
FetchDataResponse(c, o) ==
    /\ pc[c] = "fetch"
    /\ fetchLog' = [fetchLog EXCEPT ![c] = o]
    /\ IF o = "rejected"
       THEN /\ pc' = [pc EXCEPT ![c] = "returned_null"]
            /\ data' = [data EXCEPT !.error = "Error fetching " \o c,
                                    !.isLoading = FALSE]
       ELSE /\ pc' = [pc EXCEPT ![c] = "json"]
            /\ data' = data
    /\ UNCHANGED << upstream, req, cur, league, rosters, users, history,
                    championOwner, resLog, exit >>

\* fetchData(c) resumed by response.json(): the ok check, return or catch,
\* and finally.
FetchDataParsed(c) ==
    /\ pc[c] = "json"
    /\ IF Ok(fetchLog[c])
       THEN /\ pc' = [pc EXCEPT ![c] = "returned_data"]
            /\ data' = [data EXCEPT !.isLoading = FALSE]
       ELSE /\ pc' = [pc EXCEPT ![c] = "returned_null"]
            /\ data' = [data EXCEPT !.error = "Error fetching " \o c,
                                    !.isLoading = FALSE]
    /\ UNCHANGED << upstream, req, cur, league, rosters, users, history,
                    championOwner, fetchLog, resLog, exit >>

\* getAllLeagueData resumed by the Promise.all: with a league, on to
\* fetchData('champions') up to its await of fetch; without, the else
\* branch and finally.
AllLeagueDataJoined ==
    /\ pc["getAllLeagueData"] = "await_all"
    /\ \A c \in ConcurrentCalls : Returned(c)
    /\ IF pc["league"] = "returned_data"
       THEN /\ pc' = [pc EXCEPT !["getAllLeagueData"] = "await_champions",
                                !["champions"] = "fetch"]
            /\ data' = [data EXCEPT !.leagueData = TRUE, !.isLoading = TRUE,
                                    !.error = "", !.message = ""]
       ELSE /\ pc' = [pc EXCEPT !["getAllLeagueData"] = "done"]
            /\ data' = [data EXCEPT !.leagueData = FALSE, !.isLoading = FALSE,
                                    !.error = "Could not find league data."]
    /\ UNCHANGED << upstream, req, cur, league, rosters, users, history,
                    championOwner, fetchLog, resLog, exit >>

\* getAllLeagueData resumed by fetchData('champions'): setLeagueHistory,
\* setSelectedSeason(league.season), and finally.
ChampionsLoaded ==
    /\ pc["getAllLeagueData"] = "await_champions"
    /\ Returned("champions")
    /\ pc' = [pc EXCEPT !["getAllLeagueData"] = "done"]
    /\ data' = [data EXCEPT !.selectedSeason = "2023", !.isLoading = FALSE]
    /\ UNCHANGED << upstream, req, cur, league, rosters, users, history,
                    championOwner, fetchLog, resLog, exit >>

\* The second effect once selectedSeason is set: getStandingsForSeason up to
\* fetchData('standings') awaiting its fetch.
GetStandingsForSeason ==
    /\ pc["getStandingsForSeason"] = "idle"
    /\ data.selectedSeason # ""
    /\ pc' = [pc EXCEPT !["getStandingsForSeason"] = "await_standings",
                         !["standings"] = "fetch"]
    /\ data' = [data EXCEPT !.isLoading = TRUE, !.error = "", !.message = ""]
    /\ UNCHANGED << upstream, req, cur, league, rosters, users, history,
                    championOwner, fetchLog, resLog, exit >>

\* getStandingsForSeason resumed by fetchData('standings').
StandingsLoaded ==
    /\ pc["getStandingsForSeason"] = "await_standings"
    /\ Returned("standings")
    /\ pc' = [pc EXCEPT !["getStandingsForSeason"] = "done"]
    /\ data' = [data EXCEPT !.message =
                    IF pc["standings"] = "returned_data" THEN "Standings loaded"
                    ELSE data.message]
    /\ UNCHANGED << upstream, req, cur, league, rosters, users, history,
                    championOwner, fetchLog, resLog, exit >>

NextPage ==
    \/ GetAllLeagueData
    \/ \E c \in PageCalls, o \in PageOutcomes : FetchDataResponse(c, o)
    \/ \E c \in PageCalls : FetchDataParsed(c)
    \/ AllLeagueDataJoined
    \/ ChampionsLoaded
    \/ GetStandingsForSeason
    \/ StandingsLoaded

SpecPage == InitPage /\ [][NextPage]_vars

(***************************************************************************)
(* Properties.                                                             *)
(***************************************************************************)
Outranks(a, b) ==
    a.wins > b.wins \/ (a.wins = b.wins /\ a.total_points > b.total_points)

ExactTie(a, b) == a.wins = b.wins /\ a.total_points = b.total_points

HasStandings == data.kind = "standings"

SortedBySeasonDescending(h) ==
    \A i, j \in 1..Len(h) : i < j => ToNumber(h[i].season) >= ToNumber(h[j].season)

Terminators == {NULL, "", "0"}

Failed(f) == f.outcome \notin {"200", "pending"}

AllSucceeded(log) == \A i \in 1..Len(log) : log[i].outcome = "200"

\* The hops of the walk whose three fetches all succeeded, as the places of
\* their users fetches in the log.
CompletedHops(log) ==
    { i \in 1..Len(log) : log[i].kind = "users" /\ log[i].outcome = "200" }

\* The list holds one entry per completed hop, for the league of that hop.
HoldsCompletedHops(h, log) ==
    /\ Len(h) = Cardinality(CompletedHops(log))
    /\ \A id \in LeagueIds :
          Cardinality({ i \in 1..Len(h) : h[i].league_id = id })
              = Cardinality({ i \in CompletedHops(log) : log[i].id = id })

\* The leagues reached from id through previous_league_id, at most n of them,
\* as far as the provider has served them.
RECURSIVE ChainFrom(_, _)
ChainFrom(id, n) ==
    IF n = 0 \/ id \notin LeagueIds THEN << >>
    ELSE IF upstream[id] = Unseen THEN << >>
    ELSE << id >> \o ChainFrom(upstream[id].previous_league_id, n - 1)

\* c is a whole chain: no league twice, and its last league links to no other.
AcyclicChain(c) ==
    /\ c # << >>
    /\ \A i, j \in 1..Len(c) : i # j => c[i] # c[j]
    /\ upstream[c[Len(c)]].previous_league_id \in Terminators

WalkOver == pc \in {"hist_returned", "responded", "hist_beyond"}

\* C1: the standings fetchStandings returns hold one entry per roster, with
\* wins non-increasing from first to last and, between adjacent entries of
\* equal wins, total_points non-increasing.
C1_StandingsSorted ==
    HasStandings =>
        /\ Len(data.standings) = Len(rosters)
        /\ \A i \in 1..(Len(data.standings) - 1) :
              LET a == data.standings[i]
                  b == data.standings[i + 1]
              IN  /\ a.wins >= b.wins
                  /\ a.wins = b.wins => a.total_points >= b.total_points

\* Three rosters given out of order, the last of them first in the result,
\* the other two equal on wins and apart on points.
C1_Witness ==
    /\ pc = "agg_standings"
    /\ Len(data.standings) = 3
    /\ data.standings[1].roster_id = 3
    /\ data.standings[2].wins = data.standings[3].wins
    /\ data.standings[2].total_points > data.standings[3].total_points

\* C2 as stated: whichever return statement fetchLeagueHistory leaves by, the
\* list it returns is sorted by season descending.
C2_SortedOnEveryExit ==
    exit # "none" => SortedBySeasonDescending(history)

\* C3 as stated: a request during which an upstream fetch failed is answered
\* 500 with {error: "Failed to fetch data: <message>"}, whatever its dataType.
C3_EveryFailureIs500 ==
    (pc = "responded" /\ \E i \in 1..Len(fetchLog) : Failed(fetchLog[i])) =>
        /\ Len(resLog) = 1
        /\ resLog[1].status = 500

\* C3 amended: a failed upstream fetch is answered 500 with
\* {error: "Failed to fetch data: <message>"} for every dataType but
\* 'champions'; a champions request whose walk met a failed fetch is
\* answered 200 with the list fetchLeagueHistory returned.
C3_FailureIs500ExceptChampions ==
    (pc = "responded" /\ \E i \in 1..Len(fetchLog) : Failed(fetchLog[i])) =>
        /\ Len(resLog) = 1
        /\ IF req.dataType = "champions"
           THEN /\ resLog[1].status = 200
                /\ resLog[1].body = [kind |-> "champions", history |-> history]
           ELSE /\ resLog[1].status = 500
                /\ DOMAIN resLog[1].body = {"error"}
                /\ Len(resLog[1].body.error) > 1
                /\ resLog[1].body.error[1] = "Failed to fetch data: "

\* A standings request whose rosters fetch came back 500, answered 500.
C3_Witness ==
    /\ pc = "responded"
    /\ req.dataType = "standings"
    /\ Len(fetchLog) = 3
    /\ Len(resLog) = 1
    /\ fetchLog[2].outcome = "500"
    /\ fetchLog[1].outcome = "200"
    /\ resLog[1].status = 500

\* C4: over an acyclic chain of n leagues that ends in a null, empty or '0'
\* link, with every fetch succeeding, the walk ends within the chain; it
\* has fetched league, rosters and users of each league of the chain exactly
\* once and nothing else, and returns n entries, one per league of the chain.
C4_AcyclicChainWalkedOnce ==
    (req.dataType = "champions" /\ WalkOver /\ fetchLog # << >>
        /\ AllSucceeded(fetchLog)
        /\ AcyclicChain(ChainFrom(fetchLog[1].id, MaxHops))) =>
        LET c == ChainFrom(fetchLog[1].id, MaxHops)
        IN  /\ pc # "hist_beyond"
            /\ exit \in {"sentinel", "noprev"}
            /\ Len(fetchLog) = 3 * Len(c)
            /\ \A n \in 1..Len(c) : \A kind \in {"league", "rosters", "users"} :
                  Cardinality({ i \in 1..Len(fetchLog) :
                      fetchLog[i].id = c[n] /\ fetchLog[i].kind = kind }) = 1
            /\ Len(history) = Len(c)
            /\ \A n \in 1..Len(c) :
                  Cardinality({ i \in 1..Len(history) : history[i].league_id = c[n] }) = 1

\* A chain of three leagues walked to its end, the returned list not in the
\* order the leagues were fetched in.
C4_Witness ==
    /\ req.dataType = "champions"
    /\ exit = "noprev"
    /\ AllSucceeded(fetchLog)
    /\ Len(history) = 3
    /\ AcyclicChain(ChainFrom(fetchLog[1].id, MaxHops))
    /\ history[1].league_id # fetchLog[1].id

\* C5: when the league fetch of hop k answers 404 after k-1 hops that
\* succeeded, that fetch is the last one issued, the list returned holds
\* exactly the entries of the k-1 hops before it, and the caller gets the
\* list, not an error: the handler answers 200 with it.
C5_NotFoundReturnsCollected ==
    exit = "notfound" =>
        LET last == fetchLog[Len(fetchLog)]
        IN  /\ last.kind = "league" /\ last.outcome = "404"
            /\ Len(fetchLog) = 3 * (Hops(fetchLog) - 1) + 1
            /\ AllSucceeded(SubSeq(fetchLog, 1, Len(fetchLog) - 1))
            /\ Len(history) = Hops(fetchLog) - 1
            /\ HoldsCompletedHops(history, fetchLog)
            /\ pc \in {"hist_returned", "responded"}
            /\ pc = "responded" =>
                  resLog = << [status |-> 200,
                               body |-> [kind |-> "champions", history |-> history]] >>

\* The third league of the walk was not found; two entries are answered.
C5_Witness ==
    /\ exit = "notfound"
    /\ pc = "responded"
    /\ Hops(fetchLog) = 3
    /\ Len(history) = 2

\* C6: when a fetch of hop k fails otherwise than by a 404 of the league
\* fetch, it is the last fetch issued, the list returned holds the entries
\* of the hops completed before k and none for hop k, and nothing is thrown:
\* the handler answers 200 with the list.
C6_ErrorReturnsCollected ==
    exit = "error" =>
        LET last == fetchLog[Len(fetchLog)]
        IN  /\ Failed(last)
            /\ ~(last.kind = "league" /\ last.outcome = "404")
            /\ AllSucceeded(SubSeq(fetchLog, 1, Len(fetchLog) - 1))
            /\ Len(history) = Hops(fetchLog) - 1
            /\ HoldsCompletedHops(history, fetchLog)
            /\ pc \in {"hist_returned", "responded"}
            /\ pc = "responded" =>
                  resLog = << [status |-> 200,
                               body |-> [kind |-> "champions", history |-> history]] >>

\* The users fetch of the third hop failed; two entries are answered.
C6_Witness ==
    /\ exit = "error"
    /\ pc = "responded"
    /\ Hops(fetchLog) = 3
    /\ fetchLog[Len(fetchLog)].kind = "users"
    /\ Len(history) = 2

C8_RefusedBeforeAnyFetch ==
    (\E i \in 1..Len(resLog) : resLog[i].status = 400) => fetchLog = << >>

\* A standings request without season, refused.
C8_Witness ==
    /\ pc = "responded"
    /\ req.leagueId = "L1"
    /\ req.dataType = "standings"
    /\ Len(resLog) = 1
    /\ resLog[1].status = 400
    /\ fetchLog = << >>

\* C9: for the same rosters and users, with at least one roster, the champion
\* label of fetchLeagueHistory is the owner of the first standings entry.
C9_ChampionLeadsStandings ==
    (pc = "agg_done" /\ Len(rosters) >= 1) =>
        championOwner = data.standings[1].owner

\* The second and third roster tie exactly at the top, under different owners.
C9_Witness ==
    /\ pc = "agg_done"
    /\ Len(rosters) = 3
    /\ data.standings[1].roster_id = 2
    /\ ExactTie(data.standings[1], data.standings[2])
    /\ data.standings[1].owner # data.standings[2].owner
    /\ championOwner = data.standings[1].owner

\* C10 as stated: of two distinct entries, A precedes B exactly when A has
\* more wins, or as many wins and more total_points.
C10_PrecedesIffOutranks ==
    HasStandings =>
        \A i, j \in 1..Len(data.standings) :
            i # j => ((i < j) <=> Outranks(data.standings[i], data.standings[j]))

\* C10 amended: the same, for two entries that differ in wins or in
\* total_points.
C10_PrecedesIffOutranksUnlessTied ==
    HasStandings =>
        \A i, j \in 1..Len(data.standings) :
            (i # j /\ ~ExactTie(data.standings[i], data.standings[j])) =>
                ((i < j) <=> Outranks(data.standings[i], data.standings[j]))

\* Two entries tied exactly ahead of a third, which was the first roster given.
C10_Witness ==
    /\ pc = "agg_standings"
    /\ Len(data.standings) = 3
    /\ ExactTie(data.standings[1], data.standings[2])
    /\ Outranks(data.standings[2], data.standings[3])
    /\ data.standings[3].roster_id = 1

\* The users of the list whose user_id is id.
UsersWithId(us, id) == { i \in 1..Len(us) : us[i].user_id = id }

IsSet(x) == x # NULL

\* The roster the forEach of fetchLeagueHistory settled on (0 for none).
ChampionIndex == ChampionScan(rosters, Len(rosters))[3]

\* The label C11 states for owner id: the display_name of the user when set,
\* otherwise the username, 'Unknown Owner' when no user has the id.
StatedLabel(us, id) ==
    IF UsersWithId(us, id) = {} THEN "Unknown Owner"
    ELSE LET u == us[CHOOSE i \in UsersWithId(us, id) : TRUE]
         IN  IF IsSet(u.display_name) THEN u.display_name ELSE u.username

\* The same, with 'Unknown Owner' also for a user that has neither name.
StatedLabelOrUnknown(us, id) ==
    IF IsSet(StatedLabel(us, id)) THEN StatedLabel(us, id) ELSE "Unknown Owner"

\* C11 as stated: the owner of every standings entry, and the champion
\* label, is the display_name of the owning user when it is set, otherwise
\* the user's username, and 'Unknown Owner' when no user has the owner_id.
C11_OwnerLabel ==
    /\ HasStandings =>
          \A i \in 1..Len(data.standings) :
              data.standings[i].owner =
                  StatedLabel(users, rosters[data.standings[i].roster_id].owner_id)
    /\ (pc = "agg_done" /\ ChampionIndex # 0) =>
          championOwner = StatedLabel(users, rosters[ChampionIndex].owner_id)

\* C11 amended: the same, and the label is 'Unknown Owner' as well when
\* the owning user is in the list with neither display_name nor username.
C11_OwnerLabelOrUnknown ==
    /\ HasStandings =>
          \A i \in 1..Len(data.standings) :
              data.standings[i].owner =
                  StatedLabelOrUnknown(users, rosters[data.standings[i].roster_id].owner_id)
    /\ (pc = "agg_done" /\ ChampionIndex # 0) =>
          championOwner = StatedLabelOrUnknown(users, rosters[ChampionIndex].owner_id)

\* The champion is the first roster, whose owner is missing from the users
\* list, ahead of a roster labelled by its display name.
C11_Witness ==
    /\ pc = "agg_done"
    /\ Len(rosters) >= 2
    /\ ChampionIndex = 1
    /\ UsersWithId(users, rosters[1].owner_id) = {}
    /\ championOwner = "Unknown Owner"
    /\ data.standings[1].owner = "Unknown Owner"
    /\ data.standings[2].owner = DisplayNameAt[2]

StandingsAnswered ==
    pc = "responded" /\ req.dataType = "standings" /\ Len(fetchLog) = 3

\* C12: when the three fetches of a standings request succeed and the
\* rosters list is empty, fetchStandings returns an empty standings list and
\* the handler answers 200 with it.
C12_EmptyRostersEmptyStandings ==
    (StandingsAnswered /\ AllSucceeded(fetchLog) /\ rosters = << >>) =>
        /\ HasStandings
        /\ data.standings = << >>
        /\ resLog = << [status |-> 200, body |-> data] >>

\* A standings request answered for a league without rosters.
C12_Witness ==
    /\ StandingsAnswered
    /\ AllSucceeded(fetchLog)
    /\ rosters = << >>
    /\ users # << >>
    /\ resLog[1].status = 200

\* t, in units of 10^-FracDigits, is the decimal number written as the
\* digits of f, a point, and the digits of d.
IsDigitsAfterPoint(t, f, d) ==
    t * Pow10(Digits(d)) = (f * Pow10(Digits(d)) + d) * Pow10(FracDigits)

\* t, in units of 10^-FracDigits, is f + d/100.
IsHundredths(t, f, d) == t * 100 = (f * 100 + d) * Pow10(FracDigits)

\* C13 as stated: total_points is the number whose integer part is fpts and
\* whose fractional digits are the digits of fpts_decimal, a missing fpts
\* or fpts_decimal taken as 0; it is never fpts + fpts_decimal/100 when
\* fpts_decimal has one digit.
C13_DigitsAfterPointNeverHundredths ==
    pc = "points_done" =>
        LET f == Coalesce(rosters[1].settings.fpts)
            d == Coalesce(rosters[1].settings.fpts_decimal)
        IN  \A t \in {data.total_points, data.totalPoints} :
                /\ IsDigitsAfterPoint(t, f, d)
                /\ Digits(d) = 1 => ~IsHundredths(t, f, d)

\* C13 amended: the same, where total_points differs from
\* fpts + fpts_decimal/100 when fpts_decimal is one digit other than 0.
C13_DigitsAfterPoint ==
    pc = "points_done" =>
        LET f == Coalesce(rosters[1].settings.fpts)
            d == Coalesce(rosters[1].settings.fpts_decimal)
        IN  \A t \in {data.total_points, data.totalPoints} :
                /\ IsDigitsAfterPoint(t, f, d)
                /\ (Digits(d) = 1 /\ d # 0) => ~IsHundredths(t, f, d)

\* fpts 1234 and fpts_decimal 5 converted: 1234.5, which is not 1234.05.
C13_Witness ==
    /\ pc = "points_done"
    /\ rosters[1].settings.fpts = << 1234 >>
    /\ rosters[1].settings.fpts_decimal = << 5 >>
    /\ data.total_points * 10 = 12345 * Pow10(FracDigits)
    /\ data.total_points * 100 # 123405 * Pow10(FracDigits)

\* C14 as stated: the season of the result of fetchStandings is the season
\* of the league record that was fetched.
C14_SeasonIsLeagueSeason ==
    (StandingsAnswered /\ HasStandings) => data.season = league.season

\* The entries a walk with fetch log log has pushed, in the order pushed:
\* one for each hop whose three fetches succeeded.
RECURSIVE EntriesOf(_)
EntriesOf(log) ==
    IF log = << >> THEN << >>
    ELSE LET f == log[Len(log)]
             before == EntriesOf(SubSeq(log, 1, Len(log) - 1))
         IN  IF f.kind = "users" /\ f.outcome = "200"
             THEN Append(before,
                         [season |-> upstream[f.id].season,
                          league_id |-> f.id,
                          champion |-> ComputeChampion(RostersOf(f.id), UsersOf(f.id))])
             ELSE before

\* What a walk alone returns for the fetch log log when it leaves by how.
AloneReturns(log, how) ==
    IF how \in {"noprev", "error"} THEN SortHistory(EntriesOf(log))
    ELSE EntriesOf(log)

InWalk(i) == pc[i] \in {"hist_league", "hist_rosters", "hist_users", "hist_beyond"}

\* C15: of two invocations interleaved at their awaits, each walk starts
\* from an empty accumulator of its own, which holds at any time exactly what
\* that walk has pushed; what a walk or a standings aggregation returns is
\* what it returns when run alone on the same responses, and two invocations
\* given the same responses return equal results.
C15_InvocationsIndependent ==
    /\ \A i \in Invocations :
          /\ (pc[i] = "hist_league" /\ Len(fetchLog[i]) = 1) => history[i] = << >>
          /\ InWalk(i) => history[i] = EntriesOf(fetchLog[i])
          /\ pc[i] = "hist_returned" => history[i] = AloneReturns(fetchLog[i], exit[i])
          /\ pc[i] = "standings_returned" =>
                data[i].standings = ComputeStandings(RostersOf(cur[i]), UsersOf(cur[i]))
    /\ \A i, j \in Invocations :
          (pc[i] = pc[j] /\ fetchLog[i] = fetchLog[j]) =>
              /\ pc[i] = "hist_returned" => (history[i] = history[j] /\ exit[i] = exit[j])
              /\ pc[i] = "standings_returned" => data[i] = data[j]

\* Both walks started at the same league and are suspended in their second
\* hop, each holding the entry of its first.
C15_Witness ==
    /\ pc[1] = "hist_users"
    /\ pc[2] = "hist_rosters"
    /\ fetchLog[1][1].id = fetchLog[2][1].id
    /\ Len(history[1]) = 1
    /\ Len(history[2]) = 1

WalkRequested == req.dataType = "champions"

\* C16 as stated: the three fetches of a hop are issued together, so that a
\* league fetch in the log always has the rosters and users fetches of its
\* hop behind it, whatever its own outcome.
C16_HopFetchesBatched ==
    WalkRequested =>
        \A i \in 1..Len(fetchLog) :
            fetchLog[i].kind = "league" =>
                /\ i + 2 <= Len(fetchLog)
                /\ fetchLog[i + 1].kind = "rosters" /\ fetchLog[i + 1].id = fetchLog[i].id
                /\ fetchLog[i + 2].kind = "users" /\ fetchLog[i + 2].id = fetchLog[i].id

\* C17: a league fetch that opens a later hop of the walk comes directly
\* after the league, rosters and users fetches of the hop before it, all
\* three answered 200, is for the league that hop's record names as
\* previous_league_id, and the entry of that hop is in the accumulator.
C17_HopsSequential ==
    WalkRequested =>
        /\ \A i \in 2..Len(fetchLog) :
              fetchLog[i].kind = "league" =>
                  /\ i >= 4
                  /\ fetchLog[i - 3].kind = "league"
                  /\ fetchLog[i - 2].kind = "rosters"
                  /\ fetchLog[i - 1].kind = "users"
                  /\ \A k \in 1..3 :
                        /\ fetchLog[i - k].outcome = "200"
                        /\ fetchLog[i - k].id = fetchLog[i - 1].id
                  /\ fetchLog[i].id = upstream[fetchLog[i - 1].id].previous_league_id
                  /\ \E n \in 1..Len(history) :
                        history[n].league_id = fetchLog[i - 1].id
        /\ Len(history) >= Hops(fetchLog) - 1
        /\ \A i \in 1..(Len(fetchLog) - 1) : fetchLog[i].outcome # "pending"

\* The third hop of a walk is open, after two hops that completed.
C17_Witness ==
    /\ WalkRequested
    /\ pc = "hist_rosters"
    /\ Hops(fetchLog) = 3
    /\ Len(history) = 2
    /\ fetchLog[7].id # fetchLog[4].id

\* C18: a standings request is answered with a standings result exactly
\* when its three fetches all succeeded; when one of them failed or was
\* answered with a non-OK status there is no result, partial or whole, and
\* the answer is 500.
C18_StandingsAllOrNothing ==
    StandingsAnswered =>
        /\ Len(resLog) = 1
        /\ IF AllSucceeded(fetchLog)
           THEN /\ HasStandings
                /\ resLog[1] = [status |-> 200, body |-> data]
           ELSE /\ data = NoData
                /\ resLog[1].status = 500
                /\ DOMAIN resLog[1].body = {"error"}

\* League and rosters answered 200, the users fetch was rejected: 500.
C18_Witness ==
    /\ StandingsAnswered
    /\ fetchLog[1].outcome = "200"
    /\ fetchLog[2].outcome = "200"
    /\ fetchLog[3].outcome = "rejected"
    /\ data = NoData
    /\ resLog[1].status = 500

\* C19: two standings entries equal on wins and on total_points stand in
\* the order of their rosters in the rosters list.
C19_TiesKeepInputOrder ==
    HasStandings =>
        \A i, j \in 1..Len(data.standings) :
            (i < j /\ ExactTie(data.standings[i], data.standings[j])) =>
                \E m, n \in 1..Len(rosters) :
                    /\ m < n
                    /\ rosters[m].roster_id = data.standings[i].roster_id
                    /\ rosters[n].roster_id = data.standings[j].roster_id

\* The first and third roster tie exactly behind the second.
C19_Witness ==
    /\ pc = "agg_standings"
    /\ Len(data.standings) = 3
    /\ data.standings[1].roster_id = 2
    /\ data.standings[2].roster_id = 1
    /\ data.standings[3].roster_id = 3
    /\ ExactTie(data.standings[2], data.standings[3])

\* C20: when the users fetch of a hop whose rosters list is empty answers
\* 200, the walk appends the entry of that season with champion 'Unknown'
\* and, when the league names a previous league, calls itself for it.
C20_EmptySeasonAppended ==
    [][(pc = "hist_users" /\ rosters = << >>
            /\ fetchLog'[Len(fetchLog)].outcome = "200") =>
        LET entry == [season |-> league.season, league_id |-> league.league_id,
                      champion |-> "Unknown"]
            previous == league.previous_league_id
        IN  /\ Len(history') = Len(history) + 1
            /\ \E n \in 1..Len(history') : history'[n] = entry
            /\ Truthy(previous) =>
                  /\ history' = Append(history, entry)
                  /\ cur' = previous
                  /\ pc' \in {"hist_league", "hist_returned", "hist_beyond"}
                  /\ pc' = "hist_league" =>
                        fetchLog'[Len(fetchLog')] = Fetch(previous, "league")
                  /\ pc' = "hist_returned" => exit' = "sentinel"
            /\ ~Truthy(previous) => (pc' = "hist_returned" /\ exit' = "noprev")]_vars

\* The first season had no rosters; the walk is fetching the league before it.
C20_Witness ==
    /\ WalkRequested
    /\ pc = "hist_league"
    /\ Hops(fetchLog) = 2
    /\ Len(history) = 1
    /\ history[1].champion = "Unknown"
    /\ history[1].league_id = fetchLog[1].id

NoneFailed(log) == \A i \in 1..Len(log) : ~Failed(log[i])

\* The links followed from league id never leave the leagues of the
\* provider: after as many links as there are leagues one of them has come
\* round again.
CyclicFrom(id) ==
    Len(ChainFrom(id, Cardinality(LeagueIds) + 1)) = Cardinality(LeagueIds) + 1

\* C21: while the previous_league_id links from the start league form a
\* cycle and no fetch has failed, fetchLeagueHistory has not returned and
\* the handler has not answered; the accumulator holds one entry for each
\* hop completed so far.
C21_CycleNeverReturns ==
    (WalkRequested /\ fetchLog # << >> /\ NoneFailed(fetchLog)
        /\ CyclicFrom(fetchLog[1].id)) =>
        /\ pc \in {"hist_league", "hist_rosters", "hist_users", "hist_beyond"}
        /\ exit = "none"
        /\ resLog = << >>
        /\ Len(history) = Cardinality(CompletedHops(fetchLog))
        /\ pc = "hist_beyond" => Len(history) = MaxHops

\* The walk has gone round a cycle of two leagues and is beginning yet
\* another hop, with an entry for each hop behind it.
C21_Witness ==
    /\ WalkRequested
    /\ pc = "hist_beyond"
    /\ NoneFailed(fetchLog)
    /\ CyclicFrom(fetchLog[1].id)
    /\ Len(history) = MaxHops
    /\ fetchLog[4].id # fetchLog[1].id
    /\ history[3].league_id = history[1].league_id

\* C22: at most one response is ever written for a request; while the
\* handler is at work none has been written, and when it has finished
\* exactly one has, with status 400, 200 or 500.
C22_ExactlyOneResponse ==
    /\ Len(resLog) <= 1
    /\ pc # "responded" => resLog = << >>
    /\ pc = "responded" =>
          /\ Len(resLog) = 1
          /\ resLog[1].status \in {400, 200, 500}

\* A matchups request without week, refused inside the switch: the 400 is
\* the one response.
C22_Witness ==
    /\ pc = "responded"
    /\ req.leagueId = "L1"
    /\ req.dataType = "matchups"
    /\ req.week = NULL
    /\ resLog = << [status |-> 400, body |->
                      [error |-> << "Week and season are required for matchups." >>]] >>

IsLeagueFetch(f) == f.kind = "league"

\* The league fetches of the log, one per hop begun, in order.
HopsBegun(log) == SelectSeq(log, IsLeagueFetch)

\* C23: at every point of a walk the accumulator holds exactly the entries
\* of the first hops of the chain from the start league, each with its three
\* fetches answered 200; each hop is for the league the hop before names as
\* previous_league_id; at most the hop begun last has no entry, and a
\* failed fetch is the last fetch of the walk.
C23_AccumulatorIsChainPrefix ==
    WalkRequested =>
        LET hops == HopsBegun(fetchLog)
            k == Len(history)
        IN  /\ k <= Len(hops)
            /\ k >= Len(hops) - 1
            /\ hops # << >> => hops[1].id = req.leagueId
            /\ \A n \in 1..(Len(hops) - 1) :
                  hops[n + 1].id = upstream[hops[n].id].previous_league_id
            /\ \A id \in LeagueIds :
                  Cardinality({ n \in 1..k : history[n].league_id = id })
                      = Cardinality({ n \in 1..k : hops[n].id = id })
            /\ \A n \in 1..k : \A i \in (3 * n - 2)..(3 * n) :
                  /\ fetchLog[i].outcome = "200"
                  /\ fetchLog[i].id = hops[n].id
            /\ \A n \in 1..k :
                  \E m \in 1..k : /\ history[n].league_id = hops[m].id
                                  /\ history[n].season = upstream[hops[m].id].season
            /\ \A i \in 1..Len(fetchLog) : Failed(fetchLog[i]) => i = Len(fetchLog)

\* The rosters fetch of the third hop failed: the list returned holds the
\* first two leagues of the chain, the second of them first.
C23_Witness ==
    /\ WalkRequested
    /\ exit = "error"
    /\ Len(fetchLog) = 8
    /\ fetchLog[8].kind = "rosters"
    /\ fetchLog[7].id \notin {fetchLog[1].id, fetchLog[4].id}
    /\ Len(history) = 2
    /\ history[1].league_id = fetchLog[4].id
    /\ history[2].league_id = fetchLog[1].id

\* C24 as stated: while one of the three fetchData calls of the Promise.all
\* is still in flight, isLoading is true.
C24_LoadingWhileInFlight ==
    (\E c \in ConcurrentCalls : InFlight(c)) => isLoading

====
